---- MODULE Spec2Model ----
(***************************************************************************)
(* Model of src/server.js: one request to GET /api/weather/kaohsiung,      *)
(* handled by the async function getKaohsiungWeather, with the two         *)
(* upstream axios calls settling in any order.                             *)
(*                                                                         *)
(* Strings of the source that are not ASCII are transliterated:            *)
(*   "新北市" -> "NewTaipei", "板橋" -> "Banqiao", "°C" -> "degC",          *)
(*   and the Chinese error texts are rendered in English.                  *)
(* An error value carries its name and its message (err.message), the      *)
(* latter as the JavaScript engine or axios words it.                      *)
(***************************************************************************)
EXTENDS Naturals, Sequences, FiniteSets

VARIABLES
    CWA_API_KEY,        \* process.env.CWA_API_KEY is set (truthy)
    MOENV_API_KEY,      \* process.env.MOENV_API_KEY is set (truthy)
    forwardsRejections, \* the installed express forwards a rejected handler promise to next(err)
    pc,                 \* position of the handler / framework for this request
    weatherPromise,     \* axios.get(.../F-C0032-001)
    aqiPromise,         \* axios.get(.../aqx_p_432), or null
    res,                \* sequence of responses written to the client
    rejection           \* the error the handler's promise rejected with, if it did

vars == <<CWA_API_KEY, MOENV_API_KEY, forwardsRejections, pc,
          weatherPromise, aqiPromise, res, rejection>>

\* ---------------------------------------------------------------- bounds
MaxN == 2
MaxElems == 2
MaxReadings == 2

\* ------------------------------------------------------- input alphabets
LocationNames == {"NewTaipei"}
Counties == {"NewTaipei", "Kaohsiung"}
SiteNames == {"Banqiao", "Other"}
AqiValues == {"", "42"}
ElementNames == {"Wx", "ZZ"}
UpstreamStatuses == {401, 404, 500, 503}

SeqsUpTo(S, n) == UNION {[1..k -> S] : k \in 0..n}

\* element.time of n entries: the provider lists consecutive intervals in
\* chronological order, entry i covering the hours [6i, 6i + 6)
TimeSeq(n) ==
    [i \in 1..n |-> [startTime |-> 6 * i, endTime |-> 6 * i + 6,
                     parameter |-> [parameterName |-> "20"]]]

TimeSeqs == {TimeSeq(n) : n \in 0..MaxN}

WeatherElements ==
    [elementName : ElementNames, time : TimeSeqs]

Locations ==
    [locationName : LocationNames, weatherElement : SeqsUpTo(WeatherElements, MaxElems)]

\* weatherResponse.data of a 2xx answer; hasRecords = FALSE is a payload without `records`
WeatherPayloads ==
    {[hasRecords |-> TRUE, datasetDescription |-> "36h", location |-> <<>>]}
    \cup {[hasRecords |-> TRUE, datasetDescription |-> "36h", location |-> <<l>>] : l \in Locations}
    \cup {[hasRecords |-> FALSE, datasetDescription |-> "", location |-> <<>>]}

\* error.response.data of a non-2xx answer, as axios parses the body
ErrorBodies ==
    {[kind |-> "string", message |-> ""],
     [kind |-> "object", message |-> ""],
     [kind |-> "object", message |-> "Unauthorized"],
     [kind |-> "null", message |-> ""]}

NoBody == [kind |-> "absent", message |-> ""]

\* the values a thrown / rejected error can take
NoError ==
    [name |-> "", message |-> "", hasResponse |-> FALSE, status |-> 0, data |-> NoBody]

\* the message axios gives the error of a non-2xx answer
StatusMessage(s) ==
    CASE s = 401 -> "Request failed with status code 401"
      [] s = 404 -> "Request failed with status code 404"
      [] s = 500 -> "Request failed with status code 500"
      [] s = 503 -> "Request failed with status code 503"
      [] OTHER -> "Request failed"

NetworkError ==
    [name |-> "AxiosError", message |-> "Network Error",
     hasResponse |-> FALSE, status |-> 0, data |-> NoBody]
StatusError(s, d) ==
    [name |-> "AxiosError", message |-> StatusMessage(s),
     hasResponse |-> TRUE, status |-> s, data |-> d]
\* reading property prop of undefined or null (what = "undefined" or "null")
TypeError(what, prop) ==
    [name |-> "TypeError",
     message |-> "Cannot read properties of " \o what \o " (reading '" \o prop \o "')",
     hasResponse |-> FALSE, status |-> 0, data |-> NoBody]
\* reading an identifier that no scope declares
ReferenceError(ident) ==
    [name |-> "ReferenceError", message |-> ident \o " is not defined",
     hasResponse |-> FALSE, status |-> 0, data |-> NoBody]

WeatherErrors ==
    {NetworkError} \cup {StatusError(s, d) : s \in UpstreamStatuses, d \in ErrorBodies}

StationReadings == [county : Counties, sitename : SiteNames, aqi : AqiValues]

\* aqiResponse of a 2xx answer; hasRecords = FALSE is a body without `records`
AqiPayloads ==
    {[hasRecords |-> TRUE, records |-> r] : r \in SeqsUpTo(StationReadings, MaxReadings)}
    \cup {[hasRecords |-> FALSE, records |-> <<>>]}

AqiErrors == {NetworkError, StatusError(401, [kind |-> "object", message |-> "Unauthorized"])}

\* --------------------------------------------------------------- promises
NoValue == [hasRecords |-> FALSE]
NotIssued == [state |-> "none", value |-> NoValue, error |-> NoError]
Pending == [state |-> "pending", value |-> NoValue, error |-> NoError]
Fulfilled(v) == [state |-> "fulfilled", value |-> v, error |-> NoError]
Rejected(e) == [state |-> "rejected", value |-> NoValue, error |-> e]

Settled(p) == p.state \in {"fulfilled", "rejected"}

\* -------------------------------------------------------------- responses
NoData == [city |-> "", updateTime |-> "", forecasts |-> <<>>]

\* res.status(500).json({error, message}) of the key check
ConfigErrorResponse ==
    [status |-> 500, success |-> FALSE, error |-> "server configuration error",
     message |-> "set CWA_API_KEY in .env", details |-> NoBody, data |-> NoData]

NotFoundResponse_WrongStatus ==
    [status |-> 400, success |-> FALSE, error |-> "no data",
     message |-> "cannot get weather data", details |-> NoBody, data |-> NoData]

\* res.status(404).json({error, message}) when location[0] is undefined
NotFoundResponse ==
    [status |-> 404, success |-> FALSE, error |-> "no data",
     message |-> "cannot get weather data", details |-> NoBody, data |-> NoData]

\* res.json({success: true, data: weatherData}); the status defaults to 200
SuccessResponse(weatherData) ==
    [status |-> 200, success |-> TRUE, error |-> "", message |-> "",
     details |-> NoBody, data |-> weatherData]

ApiErrorResponse_BadGateway(response) ==
    [status |-> 502, success |-> FALSE, error |-> "API error",
     message |-> IF response.data.message # "" THEN response.data.message
                 ELSE "cannot get data",
     details |-> response.data, data |-> NoData]

\* res.status(error.response.status).json({error, message, details})
ApiErrorResponse(response) ==
    [status |-> response.status, success |-> FALSE, error |-> "API error",
     message |-> IF response.data.message # "" THEN response.data.message
                 ELSE "cannot get data",
     details |-> response.data, data |-> NoData]

\* res.status(500).json({error, message}) at the end of the catch block
ServerErrorResponse ==
    [status |-> 500, success |-> FALSE, error |-> "server error",
     message |-> "cannot get weather data, try again later",
     details |-> NoBody, data |-> NoData]

\* the error-handling middleware: res.status(500).json({error, message: err.message})
MiddlewareResponse(err) ==
    [status |-> 500, success |-> FALSE, error |-> "server error",
     message |-> err.message, details |-> NoBody, data |-> NoData]

\* ------------------------------------------------- outcome of running code
Sent(r) == [kind |-> "sent", response |-> r, error |-> NoError]
Threw(e) == [kind |-> "threw", response |-> ServerErrorResponse, error |-> e]

\* ------------------------------------------------------ air-quality lookup
RECURSIVE FindFrom(_, _, _, _)
\* records.find(pred) from index i on: the index of the first match, 0 if none.
\* preferred = TRUE is the predicate county === targetCity && sitename === "Banqiao",
\* preferred = FALSE is the predicate county === targetCity.
FindFrom(records, targetCity, preferred, i) ==
    IF i > Len(records) THEN 0
    ELSE IF /\ records[i].county = targetCity
            /\ (preferred => records[i].sitename = "Banqiao")
         THEN i
         ELSE FindFrom(records, targetCity, preferred, i + 1)

\* records.find(preferred) || records.find(county)
Station(records, targetCity) ==
    LET p == FindFrom(records, targetCity, TRUE, 1)
    IN  IF p # 0 THEN p ELSE FindFrom(records, targetCity, FALSE, 1)

\* the value of airQualityAqi after lines 80-95; aqiResponse is null when isNull
AirQualityAqi(aqiResponse, targetCity) ==
    IF aqiResponse.isNull \/ ~aqiResponse.data.hasRecords THEN "N/A"
    ELSE LET records == aqiResponse.data.records
             station == Station(records, targetCity)
         IN  IF station # 0 /\ records[station].aqi # ""
             THEN records[station].aqi
             ELSE "N/A"

\* ----------------------------------------------------- forecast assembly
\* The callback of lines 123-148 applied to one element for interval i
\* (index i - 1 of the source). Line 124 reads element.time[i].parameter
\* before the switch, so an element without an entry at i throws whatever
\* its name is.
ApplyElement(forecast, element, i) ==
    IF i > Len(element.time)
    THEN [kind |-> "threw", forecast |-> forecast,
          error |-> TypeError("undefined", "parameter")]
    ELSE
      LET value == element.time[i].parameter
      IN  [kind |-> "value", error |-> NoError, forecast |->
            CASE element.elementName = "Wx" ->
                   [forecast EXCEPT !.weather = value.parameterName]
              [] element.elementName = "PoP" ->
                   [forecast EXCEPT !.rain = value.parameterName \o "%"]
              [] element.elementName = "MinT" ->
                   [forecast EXCEPT !.minTemp = value.parameterName \o "degC"]
              [] element.elementName = "MaxT" ->
                   [forecast EXCEPT !.maxTemp = value.parameterName \o "degC"]
              [] element.elementName = "CI" ->
                   [forecast EXCEPT !.comfort = value.parameterName]
              [] element.elementName = "WS" ->
                   [forecast EXCEPT !.windSpeed = value.parameterName]
              [] element.elementName = "RH" ->
                   [forecast EXCEPT !.humidity = value.parameterName \o "%"]
              [] OTHER -> forecast]

RECURSIVE ForEachElement(_, _, _, _)
\* weatherElements.forEach(...) of lines 123-148, from element k on; the
\* first callback that throws ends the forEach
ForEachElement(forecast, weatherElements, i, k) ==
    IF k > Len(weatherElements)
    THEN [kind |-> "value", forecast |-> forecast, error |-> NoError]
    ELSE LET one == ApplyElement(forecast, weatherElements[k], i)
         IN  IF one.kind = "threw" THEN one
             ELSE ForEachElement(one.forecast, weatherElements, i, k + 1)

\* The object literal of lines 110-121. Its last property reads the
\* identifier airQualityData, which no scope of the module declares (the
\* variable of line 80 is airQualityAqi), so evaluating the literal throws a
\* ReferenceError before the object exists.
ForecastLiteral(weatherElements, i) == Threw(ReferenceError("airQualityData"))

\* The for loop of lines 109-151: with timeCount = 0 the body never runs and
\* forecasts stays []; otherwise the first iteration throws in the literal,
\* so lines 123-150 are never reached.
ForecastLoop(weatherElements, timeCount) ==
    IF timeCount = 0 THEN [kind |-> "value", forecasts |-> <<>>, error |-> NoError]
    ELSE [kind |-> "threw", forecasts |-> <<>>,
          error |-> ForecastLiteral(weatherElements, 1).error]

\* ------------------------------------------------------------ the handler
\* Lines 69-156: the try block after the await, given the two awaited values.
TryAfterAwait(weatherResponse, aqiResponse) ==
    IF ~weatherResponse.data.hasRecords
    THEN Threw(TypeError("undefined", "location"))  \* weatherResponse.data.records is undefined
    ELSE IF Len(weatherResponse.data.location) = 0
    THEN Sent(NotFoundResponse)         \* location[0] is undefined
    ELSE
      LET locationData == weatherResponse.data.location[1]
          airQualityAqi == AirQualityAqi(aqiResponse, locationData.locationName)
          weatherElements == locationData.weatherElement
      IN  IF Len(weatherElements) = 0
          THEN Threw(TypeError("undefined", "time"))  \* weatherElements[0] is undefined
          ELSE
            LET timeCount == Len(weatherElements[1].time)
                loop == ForecastLoop(weatherElements, timeCount)
            IN  IF loop.kind = "threw"
                THEN Threw(loop.error)
                ELSE Sent(SuccessResponse(
                       [city |-> locationData.locationName,
                        updateTime |-> weatherResponse.data.datasetDescription,
                        forecasts |-> loop.forecasts]))

\* Lines 157-174: the catch block. Reading error.response.data.message of a
\* null body throws inside the catch block, so the async function rejects.
Catch(error) ==
    IF error.hasResponse
    THEN IF error.data.kind = "null"
         THEN Threw(TypeError("null", "message"))
         ELSE Sent(ApiErrorResponse(error))
    ELSE Sent(ServerErrorResponse)

\* aqiPromise ? aqiPromise.catch((err) => null) : null
AqiAwaited ==
    IF aqiPromise.state = "fulfilled"
    THEN [isNull |-> FALSE, data |-> aqiPromise.value]
    ELSE [isNull |-> TRUE, data |-> NoValue]

PromiseAllSettled_WeatherOnly ==
    Settled(weatherPromise)

\* Promise.all([weatherPromise, aqi]) has settled: it rejects as soon as
\* weatherPromise rejects, and fulfils once both members are fulfilled (the
\* second member is null or the .catch-wrapped promise, which never rejects).
PromiseAllSettled ==
    \/ weatherPromise.state = "rejected"
    \/ /\ weatherPromise.state = "fulfilled"
       /\ aqiPromise.state \in {"none", "fulfilled", "rejected"}

\* what the handler does once the await resumes
AfterAwait ==
    IF weatherPromise.state = "rejected"
    THEN Catch(weatherPromise.error)
    ELSE LET t == TryAfterAwait([data |-> weatherPromise.value], AqiAwaited)
         IN  IF t.kind = "threw" THEN Catch(t.error) ELSE t

Init ==
    /\ CWA_API_KEY \in BOOLEAN
    /\ MOENV_API_KEY \in BOOLEAN
    /\ forwardsRejections \in BOOLEAN
    /\ pc = "ready"
    /\ weatherPromise = NotIssued
    /\ aqiPromise = NotIssued
    /\ res = <<>>
    /\ rejection = NoError

HandlerStart_ChecksKeyLate ==
    /\ pc = "ready"
    /\ weatherPromise' = Pending
    /\ aqiPromise' = IF MOENV_API_KEY THEN Pending ELSE NotIssued
    /\ IF ~CWA_API_KEY
       THEN /\ res' = Append(res, ConfigErrorResponse)
            /\ pc' = "returned"
       ELSE /\ pc' = "awaiting"
            /\ UNCHANGED res
    /\ UNCHANGED <<CWA_API_KEY, MOENV_API_KEY, forwardsRejections, rejection>>

\* Lines 27-67: the handler runs synchronously up to the await.
HandlerStart ==
    /\ pc = "ready"
    /\ IF ~CWA_API_KEY
       THEN /\ res' = Append(res, ConfigErrorResponse)
            /\ pc' = "returned"
            /\ UNCHANGED <<weatherPromise, aqiPromise>>
       ELSE /\ weatherPromise' = Pending
            /\ aqiPromise' = IF MOENV_API_KEY THEN Pending ELSE NotIssued
            /\ pc' = "awaiting"
            /\ UNCHANGED res
    /\ UNCHANGED <<CWA_API_KEY, MOENV_API_KEY, forwardsRejections, rejection>>

\* the weather provider answers 2xx
WeatherFulfils ==
    /\ weatherPromise.state = "pending"
    /\ \E payload \in WeatherPayloads : weatherPromise' = Fulfilled(payload)
    /\ UNCHANGED <<CWA_API_KEY, MOENV_API_KEY, forwardsRejections, pc, aqiPromise, res, rejection>>

\* the weather call fails: no answer, or an answer outside 2xx
WeatherRejects ==
    /\ weatherPromise.state = "pending"
    /\ \E e \in WeatherErrors : weatherPromise' = Rejected(e)
    /\ UNCHANGED <<CWA_API_KEY, MOENV_API_KEY, forwardsRejections, pc, aqiPromise, res, rejection>>

\* the air-quality provider answers 2xx
AqiFulfils ==
    /\ aqiPromise.state = "pending"
    /\ \E payload \in AqiPayloads : aqiPromise' = Fulfilled(payload)
    /\ UNCHANGED <<CWA_API_KEY, MOENV_API_KEY, forwardsRejections, pc, weatherPromise, res, rejection>>

\* the air-quality call fails
AqiRejects ==
    /\ aqiPromise.state = "pending"
    /\ \E e \in AqiErrors : aqiPromise' = Rejected(e)
    /\ UNCHANGED <<CWA_API_KEY, MOENV_API_KEY, forwardsRejections, pc, weatherPromise, res, rejection>>

\* Lines 64-174: the await resumes and the handler runs to its end.
HandlerResume ==
    /\ pc = "awaiting"
    /\ PromiseAllSettled
    /\ IF AfterAwait.kind = "sent"
       THEN /\ res' = Append(res, AfterAwait.response)
            /\ pc' = "returned"
            /\ UNCHANGED rejection
       ELSE /\ res' = res
            /\ pc' = "rejected"
            /\ rejection' = AfterAwait.error
    /\ UNCHANGED <<CWA_API_KEY, MOENV_API_KEY, forwardsRejections, weatherPromise, aqiPromise>>

\* The promise returned by the handler rejected and the router passes the
\* error to the error-handling middleware of lines 195-202.
ErrorMiddleware ==
    /\ pc = "rejected"
    /\ forwardsRejections
    /\ res' = Append(res, MiddlewareResponse(rejection))
    /\ pc' = "forwarded"
    /\ UNCHANGED <<CWA_API_KEY, MOENV_API_KEY, forwardsRejections, weatherPromise, aqiPromise, rejection>>

\* The promise returned by the handler rejected and the router ignores the
\* returned promise: nothing writes to res any more.
UnhandledRejection ==
    /\ pc = "rejected"
    /\ ~forwardsRejections
    /\ pc' = "unhandled"
    /\ UNCHANGED <<CWA_API_KEY, MOENV_API_KEY, forwardsRejections, weatherPromise, aqiPromise, res, rejection>>

Next ==
    \/ HandlerStart
    \/ WeatherFulfils
    \/ WeatherRejects
    \/ AqiFulfils
    \/ AqiRejects
    \/ HandlerResume
    \/ ErrorMiddleware
    \/ UnhandledRejection

Spec == Init /\ [][Next]_vars

\* the handler and the framework have finished with the request
Finished == pc \in {"returned", "forwarded", "unhandled"}

TypeOK ==
    /\ pc \in {"ready", "awaiting", "returned", "rejected", "forwarded", "unhandled"}
    /\ Len(res) <= 1

\* =================================================================== claims
\* ---- vocabulary of the claims
Responded == Len(res) >= 1
WeatherSucceeded == weatherPromise.state = "fulfilled"
AqiSkipped == aqiPromise.state = "none"
AqiSucceeded == aqiPromise.state = "fulfilled"
AqiFailed == aqiPromise.state = "rejected"

\* the weather provider answered 2xx with a location
HasLocation ==
    /\ WeatherSucceeded
    /\ weatherPromise.value.hasRecords
    /\ Len(weatherPromise.value.location) = 1

\* the weather provider answered 2xx with an empty location list
EmptyLocationList ==
    /\ WeatherSucceeded
    /\ weatherPromise.value.hasRecords
    /\ Len(weatherPromise.value.location) = 0

InputElements == weatherPromise.value.location[1].weatherElement
InputTimes == InputElements[1].time

\* a location with at least one element, all elements carrying the same N
\* entries with the same start and end times
ValidLocation ==
    /\ HasLocation
    /\ Len(InputElements) >= 1
    /\ \A k \in 1..Len(InputElements) :
         /\ Len(InputElements[k].time) = Len(InputTimes)
         /\ \A i \in 1..Len(InputTimes) :
              /\ InputElements[k].time[i].startTime = InputTimes[i].startTime
              /\ InputElements[k].time[i].endTime = InputTimes[i].endTime

\* the interval the documentation describes for index i, with air quality aq
DocumentedForecast(i, aq) ==
    ForEachElement(
        [startTime |-> InputTimes[i].startTime, endTime |-> InputTimes[i].endTime,
         weather |-> "", rain |-> "", minTemp |-> "", maxTemp |-> "",
         comfort |-> "", windSpeed |-> "", humidity |-> "", airQuality |-> aq],
        InputElements, i, 1).forecast

\* the response is 200 {success: true, data} with one interval per input time
\* entry, in input order
AnsweredWithForecasts ==
    /\ Len(res) = 1
    /\ res[1].status = 200
    /\ res[1].success
    /\ Len(res[1].data.forecasts) = Len(InputTimes)
    /\ \A i \in 1..Len(InputTimes) :
         /\ res[1].data.forecasts[i].startTime = InputTimes[i].startTime
         /\ res[1].data.forecasts[i].endTime = InputTimes[i].endTime

\* the same, and every interval is the documented one with air quality aq
AnsweredWithAirQuality(aq) ==
    /\ AnsweredWithForecasts
    /\ \A i \in 1..Len(InputTimes) :
         res[1].data.forecasts[i] = DocumentedForecast(i, aq)

\* C1: once a request with the primary key set and a valid, time-aligned
\* weather answer of N entries is finished, the response is 200
\* {success: true, data} with exactly N forecasts carrying the start and end
\* times of the input entries in input order.
C1_ForecastsFollowInput ==
    (Finished /\ CWA_API_KEY /\ ValidLocation) => AnsweredWithForecasts

\* C2: once a request whose air-quality call failed and whose weather call
\* gave a valid location is finished, the response is 200 and every interval
\* is the documented one with airQuality "N/A".
C2_AqiFailureIsAbsorbed ==
    (Finished /\ MOENV_API_KEY /\ ValidLocation /\ AqiFailed)
        => AnsweredWithAirQuality("N/A")

\* C3: with the secondary key unset no air-quality call is ever issued, and
\* the forecasts returned for a valid weather answer carry airQuality "N/A"
\* on every interval.
C3_NoKeyNoAqiCall ==
    ~MOENV_API_KEY =>
        /\ AqiSkipped
        /\ (Finished /\ CWA_API_KEY /\ ValidLocation) => AnsweredWithAirQuality("N/A")

\* C4: with a successful air-quality answer and a valid weather answer of at
\* least one interval, every interval carries the one resolved value: the AQI
\* of the preferred station of the county, else of the first reading of the
\* county, else "N/A" (also when the selected AQI is empty).
C4_ResolvedAqiOnEveryInterval ==
    (Finished /\ AqiSucceeded /\ ValidLocation /\ Len(InputTimes) >= 1)
        => AnsweredWithAirQuality(
              AirQualityAqi([isNull |-> FALSE, data |-> aqiPromise.value],
                            weatherPromise.value.location[1].locationName))

\* C5: with the primary key unset neither upstream call is ever issued, and
\* the only response is the 500 configuration error, whether or not the
\* secondary key is set.
C5_MissingKeyFailsFast ==
    ~CWA_API_KEY =>
        /\ weatherPromise.state = "none"
        /\ aqiPromise.state = "none"
        /\ pc # "ready" =>
              /\ Len(res) = 1
              /\ res[1].status = 500
              /\ res[1].error = "server configuration error"
              /\ ~res[1].success

C5_Witness ==
    /\ ~CWA_API_KEY
    /\ MOENV_API_KEY
    /\ pc = "returned"
    /\ Len(res) = 1

\* C6: once a request whose weather call was answered with a non-success
\* status S is finished, the client has a response with status S whose
\* message is the provider's message if it supplied one and the default
\* message otherwise, whatever the state of the air-quality call.
C6_UpstreamStatusIsSurfaced ==
    (Finished /\ weatherPromise.state = "rejected" /\ weatherPromise.error.hasResponse)
        => /\ Len(res) = 1
           /\ res[1].status = weatherPromise.error.status
           /\ res[1].message =
                 IF weatherPromise.error.data.message # ""
                 THEN weatherPromise.error.data.message
                 ELSE "cannot get data"

\* C7: once a request whose weather call succeeded with an empty location
\* list is finished, the one response is the 404 not-found body without
\* forecast data, whatever the air-quality call did.
C7_EmptyLocationIsNotFound ==
    (Finished /\ EmptyLocationList)
        => /\ Len(res) = 1
           /\ res[1].status = 404
           /\ res[1].error = "no data"
           /\ ~res[1].success
           /\ res[1].data = NoData

C7_Witness ==
    /\ Finished
    /\ EmptyLocationList
    /\ AqiSucceeded
    /\ aqiPromise.value.hasRecords
    /\ Len(aqiPromise.value.records) >= 1
    /\ Len(res) = 1
    /\ res[1].status = 404

\* C8 as stated: every response has a status in {200, 404, 500}.
C8_StatusIn200_404_500 ==
    \A k \in 1..Len(res) : res[k].status \in {200, 404, 500}

\* C8 amended: every response has a status in {200, 404, 500} or the
\* non-success status the weather provider answered with.
C8_StatusIsKnownOrUpstream ==
    \A k \in 1..Len(res) :
        \/ res[k].status \in {200, 404, 500}
        \/ /\ weatherPromise.state = "rejected"
           /\ weatherPromise.error.hasResponse
           /\ res[k].status = weatherPromise.error.status

C8_Witness ==
    /\ Len(res) = 1
    /\ res[1].status = 503
    /\ weatherPromise.state = "rejected"
    /\ weatherPromise.error.status = 503

\* C9 as stated: with both keys set, both calls are issued before the await
\* and no response is sent before both calls have settled.
C9_ResponseAfterBothSettle ==
    (CWA_API_KEY /\ MOENV_API_KEY) =>
        /\ pc = "awaiting" => (weatherPromise.state # "none" /\ aqiPromise.state # "none")
        /\ Responded => (Settled(weatherPromise) /\ Settled(aqiPromise))

\* C9 amended: with both keys set, both calls are issued before the await, no
\* response is sent before the weather call has settled, and when the weather
\* call fulfilled no response is sent before the air-quality call has settled
\* too (a rejected weather call is answered without waiting for air quality).
C9_ResponseAfterWeatherSettles ==
    (CWA_API_KEY /\ MOENV_API_KEY) =>
        /\ pc = "awaiting" => (weatherPromise.state # "none" /\ aqiPromise.state # "none")
        /\ Responded =>
              /\ Settled(weatherPromise)
              /\ WeatherSucceeded => Settled(aqiPromise)

C9_Witness ==
    /\ CWA_API_KEY
    /\ MOENV_API_KEY
    /\ Responded
    /\ WeatherSucceeded
    /\ AqiFailed

\* C10: a request that is finished has received exactly one response, and no
\* request ever receives two.
C10_ExactlyOneResponse ==
    /\ Len(res) <= 1
    /\ Finished => Len(res) = 1

====
